---- MODULE Spec2Model ----
(***************************************************************************)
(* A model of Deep-RL-Stocks: the ReplayBuffer and the DDPG agent of       *)
(* src/models/model.py and the StockEnv environment and run() training     *)
(* loop of src/models/environment.py.                                      *)
(*                                                                         *)
(* Four specifications share the variables:                                *)
(*   SpecBuf    a ReplayBuffer of capacity BufCap driven by add and sample;*)
(*   SpecEnv    a StockEnv that is constructed, stepped and reset;         *)
(*   SpecAgent  a DDPG agent that is trained, saved and loaded;            *)
(*   Spec       the training loop run(): StockEnv, ReplayBuffer and agent. *)
(***************************************************************************)
EXTENDS Integers, Sequences, FiniteSets, TLC

VARIABLES
    replay_buffer,  \* the ReplayBuffer object (model.py 297-326)
    adds,           \* history: the transitions passed to add, in call order
    sampled,        \* the outcome of the last sample call: kind, ind, batch
    env,            \* the StockEnv object (environment.py 21-211)
    call,           \* the last call on env: its inputs, outcome and pre-state
    ncalls,         \* number of step/reset calls made on env
    loop,           \* the locals of run() (environment.py 214-283)
    policy,         \* the DDPG agent (model.py 189-294)
    trained,        \* history: what the last train call computed
    files           \* the checkpoint files save writes and load reads

bufVars == <<replay_buffer, adds, sampled>>
envVars == <<env, call, ncalls>>
runVars == <<loop, policy, trained, files>>
vars == <<replay_buffer, adds, sampled, env, call, ncalls, loop, policy,
          trained, files>>

(***************************************************************************)
(* Bounds of the model.                                                    *)
(***************************************************************************)
\* capacity (max_size) of the buffer SpecBuf constructs
BufCap == 2
\* number of add calls SpecBuf makes: more than two rounds of the ring
MaxAdds == 5
\* batch_size SpecBuf passes to sample
SampleSize == 2

(***************************************************************************)
(* ReplayBuffer (model.py 297-326).  Vectors are tuples of integers.       *)
(***************************************************************************)
\* np.zeros((max_size, dim)): every slot holds the zero vector
Zeros(cap, dim) == [i \in 0..(cap - 1) |-> [k \in 1..dim |-> 0]]

\* ReplayBuffer.__init__
NewReplayBuffer(state_dim, action_dim, cap) ==
    [max_size   |-> cap,
     ptr        |-> 0,
     size       |-> 0,
     action     |-> Zeros(cap, action_dim),
     state      |-> Zeros(cap, state_dim),
     next_state |-> Zeros(cap, state_dim),
     reward     |-> Zeros(cap, 1),
     not_done   |-> Zeros(cap, 1)]

Min(a, b) == IF a <= b THEN a ELSE b

\* a bug that never wraps the write pointer
NextPtrNoWrap(p, cap) == Min(p + 1, cap - 1)

\* self.ptr = (self.ptr + 1) % self.max_size
NextPtr(p, cap) == (p + 1) % cap

\* self.size = min(self.size + 1, self.max_size)
NextSize(sz, cap) == Min(sz + 1, cap)

\* a bug that writes one slot ahead of the write pointer
WriteSlotAhead(rb) == (rb.ptr + 1) % rb.max_size

\* the slot add writes: self.ptr
WriteSlot(rb) == rb.ptr

\* ReplayBuffer.add(state, action, next_state, reward, done)
BufferAdd(rb, s, a, ns, r, done) ==
    LET w == WriteSlot(rb) IN
    [rb EXCEPT !.next_state[w] = ns,
               !.action[w]     = a,
               !.state[w]      = s,
               !.reward[w]     = <<r>>,
               !.not_done[w]   = <<1 - done>>,
               !.ptr           = NextPtr(rb.ptr, rb.max_size),
               !.size          = NextSize(rb.size, rb.max_size)]

\* the transition as add stores it
Stored(s, a, ns, r, done) ==
    [state |-> s, action |-> a, next_state |-> ns,
     reward |-> <<r>>, not_done |-> <<1 - done>>]

\* a bug that draws indices over the whole allocation
SampleRangeAll(rb) == 0..(rb.max_size - 1)

\* the indices np.random.randint(0, self.size, ...) draws from: [0, size)
SampleRange(rb) == 0..(rb.size - 1)

\* the five arrays gathered at the indices ind (model.py 320-326)
Gather(rb, ind) ==
    [k \in DOMAIN ind |->
        [state      |-> rb.state[ind[k]],
         action     |-> rb.action[ind[k]],
         next_state |-> rb.next_state[ind[k]],
         reward     |-> rb.reward[ind[k]],
         not_done   |-> rb.not_done[ind[k]]]]

NoSample == [kind |-> "none", ind |-> <<>>, batch |-> <<>>]

\* ReplayBuffer.sample(batch_size): np.random.randint(0, size, size=batch_size)
\* raises ValueError (low >= high) when the range [0, size) is empty
SampleOutcomes(rb, batch_size) ==
    IF SampleRange(rb) = {}
    THEN {[kind |-> "ValueError", ind |-> <<>>, batch |-> <<>>]}
    ELSE {[kind |-> "batch", ind |-> ind, batch |-> Gather(rb, ind)] :
            ind \in [1..batch_size -> SampleRange(rb)]}

(***************************************************************************)
(* Dates.  A date string is a tuple of one-character strings; the model    *)
(* splits and parses it as the code does (re.split on "-", str.isdigit,    *)
(* int, datetime.date(year = third, month = first, day = second)).  A      *)
(* calendar date is its proleptic Gregorian ordinal, as datetime computes  *)
(* date differences and date + timedelta.                                  *)
(***************************************************************************)
DigitChars == {"0", "1", "2", "3", "4", "5", "6", "7", "8", "9"}

DigitVal(c) ==
    CASE c = "0" -> 0 [] c = "1" -> 1 [] c = "2" -> 2 [] c = "3" -> 3
      [] c = "4" -> 4 [] c = "5" -> 5 [] c = "6" -> 6 [] c = "7" -> 7
      [] c = "8" -> 8 [] c = "9" -> 9

\* re.split(r"[\-]", s) from character i on, with cur the token being read and
\* acc the tokens read
RECURSIVE SplitFrom(_, _, _, _)
SplitFrom(s, i, cur, acc) ==
    IF i > Len(s) THEN Append(acc, cur)
    ELSE IF s[i] = "-" THEN SplitFrom(s, i + 1, <<>>, Append(acc, cur))
    ELSE SplitFrom(s, i + 1, Append(cur, s[i]), acc)

\* re.split(r"[\-]", s): the tokens between the dashes (empty ones kept)
Split(s) == SplitFrom(s, 1, <<>>, <<>>)

\* str.isdigit(): non-empty and all digits
IsDigit(tok) == Len(tok) > 0 /\ \A i \in 1..Len(tok) : tok[i] \in DigitChars

\* int(tok) of a digit string
RECURSIVE ParseInt(_)
ParseInt(tok) ==
    IF tok = <<>> THEN 0
    ELSE 10 * ParseInt(SubSeq(tok, 1, Len(tok) - 1)) + DigitVal(tok[Len(tok)])

IsLeap(y) == y % 4 = 0 /\ (y % 100 # 0 \/ y % 400 = 0)

DaysInMonth(y, m) ==
    IF m = 2 THEN (IF IsLeap(y) THEN 29 ELSE 28)
    ELSE IF m \in {4, 6, 9, 11} THEN 30 ELSE 31

RECURSIVE DaysBeforeMonth(_, _)
DaysBeforeMonth(y, m) ==
    IF m <= 1 THEN 0 ELSE DaysBeforeMonth(y, m - 1) + DaysInMonth(y, m - 1)

DaysBeforeYear(y) ==
    LET p == y - 1 IN p * 365 + (p \div 4) - (p \div 100) + (p \div 400)

\* datetime.date(y, m, d) accepts these and raises ValueError otherwise
DateCtorOk(y, m, d) ==
    /\ 1 <= y /\ y <= 9999
    /\ 1 <= m /\ m <= 12
    /\ 1 <= d /\ d <= DaysInMonth(y, m)

\* datetime.date(y, m, d).toordinal()
Ordinal(y, m, d) == DaysBeforeYear(y) + DaysBeforeMonth(y, m) + d

\* datetime.date(arr[2], arr[0], arr[1]): month, day, year in that order
DateFields(arr) == [year |-> arr[3], month |-> arr[1], day |-> arr[2]]

\* the ordinal of a well-formed date string
DateOrd(s) ==
    LET toks == Split(s)
        f == DateFields([i \in 1..Len(toks) |-> ParseInt(toks[i])]) IN
    Ordinal(f.year, f.month, f.day)

(***************************************************************************)
(* StockEnv.initialize_date (environment.py 174-197).                      *)
(***************************************************************************)
\* the for loop of lines 182-187 from the i-th pair on: it returns False
\* from inside the loop, or leaves date_is_valid
RECURSIVE DateLoop(_, _, _, _)
DateLoop(sa, ea, i, valid) ==
    IF i > Min(Len(sa), Len(ea))
    THEN [returned |-> FALSE, valid |-> valid]
    ELSE IF IsDigit(sa[i]) /\ IsDigit(ea[i]) /\ valid
         THEN DateLoop(sa, ea, i + 1, ParseInt(sa[i]) > 0 /\ ParseInt(ea[i]) > 0)
         ELSE [returned |-> TRUE, valid |-> FALSE]

\* [int(x) for x in ...] and datetime.date(d[2], d[0], d[1]) of one string:
\* the error it raises, or "ok"
DateObjError(arr) ==
    IF \E i \in 1..Len(arr) : ~IsDigit(arr[i]) THEN "IntValueError"
    ELSE IF Len(arr) < 3 THEN "IndexError"
    ELSE LET f == DateFields([i \in 1..Len(arr) |-> ParseInt(arr[i])]) IN
         IF DateCtorOk(f.year, f.month, f.day) THEN "ok" ELSE "DateCtorValueError"

\* self.max_epochs = epochs * 2
MaxEpochs(days) == days * 2

\* initialize_date: what it does ("set": the three attributes are assigned;
\* "False": it returns False and assigns nothing; else the error raised)
InitializeDate(start_date, end_date) ==
    LET sa == Split(start_date)
        ea == Split(end_date)
        scan == DateLoop(sa, ea, 1, TRUE)
        none == [kind |-> "False", max_epochs |-> 0] IN
    IF scan.returned THEN none
    ELSE IF \E i \in 1..Len(sa) : ~IsDigit(sa[i])
         THEN [none EXCEPT !.kind = "IntValueError"]
    ELSE IF \E i \in 1..Len(ea) : ~IsDigit(ea[i])
         THEN [none EXCEPT !.kind = "IntValueError"]
    ELSE IF DateObjError(sa) # "ok" THEN [none EXCEPT !.kind = DateObjError(sa)]
    ELSE IF DateObjError(ea) # "ok" THEN [none EXCEPT !.kind = DateObjError(ea)]
    ELSE LET days == DateOrd(end_date) - DateOrd(start_date) IN
         IF ~(scan.valid /\ days >= 0)
         THEN [none EXCEPT !.kind = "DateNotValid"]
         ELSE [kind |-> "set", max_epochs |-> MaxEpochs(days)]

(***************************************************************************)
(* Market data: the trading calendar (the index of SPY.csv, read at        *)
(* environment.py 53) and the price files State reads.  Dates are given    *)
(* as day offsets from 2020-01-01.                                         *)
(***************************************************************************)
Base == Ordinal(2020, 1, 1)

OnDays(offsets) == {Base + k : k \in offsets}

\* every day is a trading day
CalAll == OnDays(0..12)
\* the trading days of January 2020 (New Year's Day and weekends closed)
CalJan == OnDays({1, 2, 5, 6, 7, 8, 9, 12, 13})
\* a calendar whose first trading day is ten days after 2020-01-01
CalLate == OnDays({10, 11})

\* the market data an environment is built on: the calendar and the days the
\* price files cover (all of the calendar, or all but one day)
Markets ==
    {[valid |-> CalAll, priced |-> CalAll],
     [valid |-> CalAll, priced |-> CalAll \ {Base + 1}],
     [valid |-> CalJan, priced |-> CalJan],
     [valid |-> CalLate, priced |-> CalLate]}

\* the open or close price of a stock on a day
Price(name, d, tm) ==
    IF name = "SPY"
    THEN 100 + 3 * (d - Base) + (IF tm = "Close" THEN 2 ELSE 0)
    ELSE 50 - (d - Base) - (IF tm = "Close" THEN 1 ELSE 0)

(***************************************************************************)
(* State (State.py).  The portfolio state: cash, holdings per stock, the   *)
(* current date and time.                                                  *)
(***************************************************************************)
RECURSIVE Dot(_, _)
\* np.sum(h * p)
Dot(h, p) ==
    IF h = <<>> THEN 0 ELSE Head(h) * Head(p) + Dot(Tail(h), Tail(p))

\* State(stock_names, money, shares, date, time) and State.reset(...)
NewState(money, shares, d, tm) ==
    [cash |-> money, holdings |-> shares, date |-> d, time |-> tm]

NoState == NewState(0, <<>>, 0, "Open")

\* State.get_stock_prices(date, time): the price vector
GetStockPrices(e, d, tm) ==
    [i \in 1..Len(e.stock_names) |-> Price(e.stock_names[i], d, tm)]

\* get_stock_prices fails with DataNotFoundError on a date without prices
HasPrices(e, d) == d \in e.price_dates

\* State.get_new_holdings(action, prices): (holdings, remaining cash)
GetNewHoldings(st, action, prices) ==
    [holdings |-> [i \in 1..Len(st.holdings) |-> st.holdings[i] + action[i]],
     money    |-> st.cash - Dot(action, prices)]

\* State.advance_state(cash, holdings, date, time)
AdvanceState(st, money, holdings, d, tm) ==
    [st EXCEPT !.cash = money, !.holdings = holdings, !.date = d, !.time = tm]

\* State.calculate_portfolio_value()
PortfolioValue(e, st) ==
    st.cash + Dot(st.holdings, GetStockPrices(e, st.date, st.time))

(***************************************************************************)
(* StockEnv (environment.py 21-211).                                       *)
(***************************************************************************)
\* the forward search of increment_date gives up when incr reaches this
SearchLimit == 20

EmptyEnv ==
    [attrs |-> {}, random_start |-> FALSE, valid_dates |-> {},
     price_dates |-> {}, stock_names |-> <<>>,
     start_date |-> <<>>, end_date |-> <<>>, max_epochs |-> 0, epochs |-> 0,
     starting_amount_lower |-> 0, starting_amount_upper |-> 0,
     starting_amount |-> 0, state |-> NoState]

\* get_date_and_time: "Open" if self.epochs % 2 == 0 else "Close"
TimeOfEpoch(ep) == IF ep % 2 = 0 THEN "Open" ELSE "Close"

\* date_obj of increment_date and get_date_and_time (103-104, 156-158): the
\* start date, parsed again from self.start_date
StartOrd(e) == DateOrd(e.start_date)

\* date_obj + datetime.timedelta(ep // 2)
DatePlus(start_ord, ep) == start_ord + (ep \div 2)

\* get_date_and_time: start date + timedelta(epochs // 2)
DateOfEpoch(e, ep) == DatePlus(StartOrd(e), ep)

\* the while loop of increment_date (107-114) entered with incr: the incr it
\* leaves with, or 0 when it raises "out of range"
RECURSIVE SearchIncr(_, _, _, _)
SearchIncr(start_ord, epochs, valid, incr) ==
    IF DatePlus(start_ord, epochs + incr) \in valid THEN incr
    ELSE IF incr + 1 >= SearchLimit THEN 0
    ELSE SearchIncr(start_ord, epochs, valid, incr + 1)

\* a bug that starts the search at epochs + 2
SearchLate(e) ==
    LET found == SearchIncr(StartOrd(e), e.epochs + 1, e.valid_dates, 1) IN
    IF found = 0 THEN 0 ELSE found + 1

\* the incr the search of increment_date ends with (0: it raises)
Search(e) == SearchIncr(StartOrd(e), e.epochs, e.valid_dates, 1)

\* a bug that always advances by one half-day
AdvanceByOne(e) == IF Search(e) = 0 THEN 0 ELSE 1

\* the incr increment_date adds to epochs (0: it raises)
Advance(e) == Search(e)

\* a bug that forgets the half-day the search starts with
IncrementDateStall(e) ==
    LET incr == Advance(e) IN
    IF incr = 0
    THEN [raised |-> "OutOfRange", env |-> e]
    ELSE [raised |-> "none", env |-> [e EXCEPT !.epochs = e.epochs + incr - 1]]

\* increment_date
IncrementDate(e) ==
    LET incr == Advance(e) IN
    IF incr = 0
    THEN [raised |-> "OutOfRange", env |-> e]
    ELSE [raised |-> "none", env |-> [e EXCEPT !.epochs = e.epochs + incr]]

\* a bug that compares strictly
IsDoneStrict(e) == e.epochs > e.max_epochs

\* is_done
IsDone(e) == e.epochs >= e.max_epochs

\* a bug that measures the reward against the configured starting cash
CalculateRewardFromUpper(e, holdings, money, prices) ==
    money + Dot(holdings, prices) - e.starting_amount_upper

\* calculate_reward
CalculateReward(e, holdings, money, prices) ==
    money + Dot(holdings, prices) - e.starting_amount

Outcome(e, raised, from, inc, reward, done) ==
    [env |-> e, raised |-> raised, from_epoch |-> from, inc |-> inc,
     reward |-> reward, done |-> done]

\* a bug that charges the action at the prices of the new epoch
ChargeEpochNew(old, new) == new

\* step charges the action at the prices read before increment_date (85-89)
ChargeEpoch(old, new) == old

\* a bug that commits the date and time read before increment_date
CommitEpochOld(old, new) == old

\* step commits the date and time read after increment_date (91-93)
CommitEpoch(old, new) == new

\* step(action): the environment after the call, the error raised if any,
\* and the reward and done flag returned
Step(e, action) ==
    LET old == e.epochs
        moved == IncrementDate(e)
        new == moved.env.epochs
        chargeAt == ChargeEpoch(old, new)
        prices_old == GetStockPrices(e, DateOfEpoch(e, chargeAt), TimeOfEpoch(chargeAt))
        got == GetNewHoldings(e.state, action, prices_old)
        commitAt == CommitEpoch(old, new)
        new_date == DateOfEpoch(e, commitAt)
        new_time == TimeOfEpoch(commitAt)
        prices_new == GetStockPrices(e, new_date, new_time)
        after == [moved.env EXCEPT !.state =
                     AdvanceState(e.state, got.money, got.holdings, new_date, new_time)] IN
    IF ~HasPrices(e, DateOfEpoch(e, old))
    THEN Outcome(e, "DataNotFound", old, "notcalled", 0, FALSE)
    ELSE IF moved.raised # "none"
    THEN Outcome(e, "OutOfRange", old, "raised", 0, FALSE)
    ELSE IF ~HasPrices(e, new_date)
    THEN Outcome(moved.env, "DataNotFound", old, "returned", 0, FALSE)
    ELSE Outcome(after, "none", old, "returned",
                 CalculateReward(after, got.holdings, got.money, prices_new),
                 IsDone(after))

\* the whole days between the start and the end date
RangeDays(e) == DateOrd(e.end_date) - DateOrd(e.start_date)

\* random.randint(-1, int(days * 0.2)): the epochs a random start draws from
StartEpochs(e) == (-1)..(RangeDays(e) \div 5)

\* the value the model lets random.randint(0, 10) draw for a holding
ShareDraws == {3}

\* the value the model lets random.randint(lower, upper) draw for the cash
MoneyDraws(e) == {e.starting_amount_lower}

\* the draws of one reset: starting money, starting shares, starting epoch
Draws(e) ==
    IF e.random_start /\ "start_date" \in e.attrs
       /\ e.starting_amount_lower <= e.starting_amount_upper
    THEN [money : MoneyDraws(e),
          shares : [1..Len(e.stock_names) -> ShareDraws],
          epoch : StartEpochs(e)]
    ELSE {[money |-> e.starting_amount_upper,
           shares |-> [i \in 1..Len(e.stock_names) |-> 0],
           epoch |-> -1]}

\* a bug that keeps the valuation of the previous episode
StartingAmountKept(e, placed, st) == e.starting_amount

\* self.starting_amount = self.state.calculate_portfolio_value() (147)
StartingAmount(e, placed, st) == PortfolioValue(placed, st)

\* reset(init) with the draws rnd
Reset(e, rnd) ==
    LET started == [e EXCEPT !.epochs = rnd.epoch, !.attrs = @ \cup {"epochs"}]
        moved == IncrementDate(started)
        ep == moved.env.epochs
        st == NewState(rnd.money, rnd.shares, DateOfEpoch(e, ep), TimeOfEpoch(ep))
        placed == [moved.env EXCEPT !.state = st, !.attrs = @ \cup {"state"}] IN
    IF e.random_start /\ e.starting_amount_lower > e.starting_amount_upper
    THEN Outcome(e, "RandintValueError", 0, "notcalled", 0, FALSE)
    ELSE IF "start_date" \notin e.attrs
    THEN Outcome(e, "AttributeError", 0, "notcalled", 0, FALSE)
    ELSE IF moved.raised # "none"
    THEN Outcome(started, "OutOfRange", rnd.epoch, "raised", 0, FALSE)
    ELSE IF ~HasPrices(e, st.date)
    THEN Outcome(placed, "DataNotFound", rnd.epoch, "returned", 0, FALSE)
    ELSE Outcome([placed EXCEPT !.starting_amount = StartingAmount(e, placed, st)],
                 "none", rnd.epoch, "returned", 0, FALSE)

\* __init__ up to the call of reset (51-60)
Configure(names, start_date, end_date, lower, upper, random, valid, priced) ==
    LET dated == InitializeDate(start_date, end_date)
        e1 == [EmptyEnv EXCEPT
                 !.attrs = {"random_start", "valid_dates", "stock_names"},
                 !.random_start = random, !.valid_dates = valid,
                 !.price_dates = priced, !.stock_names = names]
        e2 == IF dated.kind = "set"
              THEN [e1 EXCEPT !.attrs = @ \cup {"max_epochs", "start_date", "end_date"},
                              !.max_epochs = dated.max_epochs,
                              !.start_date = start_date, !.end_date = end_date]
              ELSE e1
        e3 == [e2 EXCEPT !.attrs = @ \cup {"starting_amount"},
                         !.starting_amount_lower = lower,
                         !.starting_amount_upper = upper,
                         !.starting_amount = upper] IN
    IF dated.kind \in {"set", "False"}
    THEN [raised |-> "none", env |-> e3]
    ELSE [raised |-> dated.kind, env |-> e1]

(***************************************************************************)
(* SpecEnv: a StockEnv is constructed from drawn arguments and market      *)
(* data, then stepped and reset by its caller.                             *)
(***************************************************************************)
\* number of step and reset calls made on a constructed environment
MaxCalls == 3

D_01_01_2020 == <<"0", "1", "-", "0", "1", "-", "2", "0", "2", "0">>
D_01_02_2020 == <<"0", "1", "-", "0", "2", "-", "2", "0", "2", "0">>
D_01_11_2020 == <<"0", "1", "-", "1", "1", "-", "2", "0", "2", "0">>
\* a non-numeric component, a missing component, a zero component
D_0x_01_2020 == <<"0", "x", "-", "0", "1", "-", "2", "0", "2", "0">>
D_01_2020 == <<"0", "1", "-", "2", "0", "2", "0">>
D_00_01_2020 == <<"0", "0", "-", "0", "1", "-", "2", "0", "2", "0">>

StartDates ==
    {D_01_01_2020, D_01_11_2020, D_0x_01_2020, D_01_2020, D_00_01_2020}

EndDates ==
    {D_01_01_2020, D_01_02_2020, D_01_11_2020, D_01_2020}

\* the constructor's stock_names, starting_amount_lower and
\* starting_amount_upper: one stock and a range small enough for a purchase
\* to exceed the cash, or two stocks and the default amounts
Portfolios ==
    {[names |-> <<"SPY">>, lower |-> 400, upper |-> 10000],
     [names |-> <<"SPY", "QQQ">>, lower |-> 10000, upper |-> 50000]}

\* the share counts the caller passes to step, per stock
StepActions == {-10, 5}

\* the record of a call: op, the constructor's date arguments, the action
\* passed to step, the error raised ("none": the call returned), the reward and
\* done flag returned, whether increment_date was called and returned (inc)
\* and the epoch it was called at (from_epoch), the environment before, and
\* the number of steps that returned since the last reset that returned
NoCall ==
    [op |-> "none", start_arg |-> <<>>, end_arg |-> <<>>,
     raised |-> "none", action |-> <<>>, reward |-> 0,
     done |-> FALSE, from_epoch |-> 0, inc |-> "notcalled", pre |-> EmptyEnv,
     steps |-> 0]

Called(op, action, pre, out) ==
    [NoCall EXCEPT !.op = op, !.raised = out.raised, !.action = action,
                   !.reward = out.reward, !.done = out.done,
                   !.from_epoch = out.from_epoch, !.inc = out.inc, !.pre = pre,
                   !.steps = IF out.raised # "none" THEN call.steps
                             ELSE IF op = "step" THEN call.steps + 1 ELSE 0]

CalledInit(sd, ed, pre, out) ==
    [Called("init", <<>>, pre, out) EXCEPT !.start_arg = sd, !.end_arg = ed]

\* an environment exists: the constructor returned
Constructed == call.op # "none" /\ ~(call.op = "init" /\ call.raised # "none")

InitEnv ==
    /\ env = EmptyEnv
    /\ call = NoCall
    /\ ncalls = 0

\* StockEnv(stock_names, start_date, end_date, lower, upper, random_start)
Construct ==
    /\ call.op = "none"
    /\ \E pf \in Portfolios, sd \in StartDates, ed \in EndDates,
          random \in BOOLEAN, mkt \in Markets :
         LET cfg == Configure(pf.names, sd, ed, pf.lower, pf.upper, random,
                              mkt.valid, mkt.priced) IN
         IF cfg.raised # "none"
         THEN /\ env' = cfg.env
              /\ call' = CalledInit(sd, ed, EmptyEnv,
                                    Outcome(cfg.env, cfg.raised, 0, "notcalled", 0, FALSE))
         ELSE \E rnd \in Draws(cfg.env) :
                LET out == Reset(cfg.env, rnd) IN
                /\ env' = out.env
                /\ call' = CalledInit(sd, ed, cfg.env, out)
    /\ ncalls' = 0
    /\ UNCHANGED <<bufVars, runVars>>

\* env.step(action)
EnvStep ==
    /\ Constructed
    /\ ncalls < MaxCalls
    /\ \E action \in [1..Len(env.stock_names) -> StepActions] :
         LET out == Step(env, action) IN
         /\ env' = out.env
         /\ call' = Called("step", action, env, out)
    /\ ncalls' = ncalls + 1
    /\ UNCHANGED <<bufVars, runVars>>

\* env.reset()
EnvReset ==
    /\ Constructed
    /\ ncalls < MaxCalls
    /\ \E rnd \in Draws(env) :
         LET out == Reset(env, rnd) IN
         /\ env' = out.env
         /\ call' = Called("reset", <<>>, env, out)
    /\ ncalls' = ncalls + 1
    /\ UNCHANGED <<bufVars, runVars>>

NextEnv == Construct \/ EnvStep \/ EnvReset

(***************************************************************************)
(* DDPG (model.py 189-294).  A network is its vector of parameters.  A     *)
(* parameter is a float32: it is modelled as an integer that counts units  *)
(* of the format's resolution, and an arithmetic result is rounded to the  *)
(* nearest unit.  A forward pass is kept as an uninterpreted term: which   *)
(* network, with which parameters, applied to which input.                 *)
(***************************************************************************)
\* tau=0.005 (model.py 196), as the fraction TauNum / TauDen
TauNum == 1
TauDen == 200

\* policy_freq=2 (model.py 199)
PolicyFreq == 2

\* discount=0.95 (model.py 195), in hundredths
DiscountPct == 95

\* round n / d (d > 0) to the nearest integer, ties to even
Round(n, d) ==
    LET q == n \div d
        r == n % d IN
    IF 2 * r < d THEN q
    ELSE IF 2 * r > d THEN q + 1
    ELSE IF q % 2 = 0 THEN q ELSE q + 1

\* torch.optim.Adam(params): no step taken, no moment accumulated
NewOptimizer(params) == [step |-> 0, m |-> [i \in DOMAIN params |-> 0]]

\* DDPG.__init__ with the weights init_weights drew: the targets are deep
\* copies of the live networks, no gradient is held
NewDDPG(actor, critic) ==
    [actor            |-> actor,
     actor_target     |-> actor,
     actor_optimizer  |-> NewOptimizer(actor),
     actor_grad       |-> [i \in DOMAIN actor |-> 0],
     critic           |-> critic,
     critic_target    |-> critic,
     critic_optimizer |-> NewOptimizer(critic),
     critic_grad      |-> [i \in DOMAIN critic |-> 0],
     policy_freq      |-> PolicyFreq,
     total_it         |-> 0]

\* the weights init_weights draws (model.py 146-149, 167-170)
ActorWeights == <<0, 100>>
CriticWeights == <<50, -50>>

\* no agent exists yet
NoPolicy == NewDDPG(<<>>, <<>>)

\* Actor.forward(state) of the network with parameters params
ActorForward(params, state) ==
    [net |-> "actor", params |-> params, state |-> state]

\* Critic.forward(state, action) of the network with parameters params
CriticForward(params, state, action) ==
    [net |-> "critic", params |-> params, state |-> state, action |-> action]

\* line 237: next_action = self.actor_target(state)
TargetActorInput(row) == row.state

\* line 243: reward + not_done * self.discount * target_Q, as the term
\* reward + factor * q with factor = not_done * discount (in hundredths)
TargetValue(reward, not_done, q) ==
    [reward |-> reward, factor |-> not_done[1] * DiscountPct, q |-> q]

\* a bug that leaves the gradients of the last backward pass in place
ZeroGradKept(grad) == grad

\* optimizer.zero_grad(): the gradients of the optimizer's parameters
ZeroGrad(grad) == [i \in DOMAIN grad |-> 0]

\* loss.backward(): the gradient g is accumulated into .grad
Backward(grad, g) == [i \in DOMAIN grad |-> grad[i] + g[i]]

\* optimizer.step() (Adam, abstracted): the optimizer counts the step, folds
\* the gradient into its moment and moves its own parameters against it
OptimizerStep(opt, params, grad) ==
    LET m == [i \in DOMAIN params |-> opt.m[i] + grad[i]] IN
    [optimizer |-> [step |-> opt.step + 1, m |-> m],
     params    |-> [i \in DOMAIN params |-> params[i] - m[i]]]

\* a bug that overwrites the target with the live parameter
SoftParamHard(live, target) == live

\* self.tau * param.data + (1 - self.tau) * target_param.data (270, 276):
\* two rounded products and their sum
SoftParam(live, target) ==
    Round(TauNum * live, TauDen) + Round((TauDen - TauNum) * target, TauDen)

\* the soft-update loop over zip(live.parameters(), target.parameters())
SoftUpdate(live, target) ==
    [i \in DOMAIN target |-> SoftParam(live[i], target[i])]

\* what one train call computed, kept for inspection: the batch, the forward
\* passes, the gradients its backward passes produced, the live parameters
\* after each optimizer step, and the agent before the call
NoTrained ==
    [kind |-> "none", pre |-> NoPolicy, batch |-> <<>>, grads |-> <<>>,
     next_action |-> <<>>, target_Q |-> <<>>, current_Q |-> <<>>,
     actor_loss |-> <<>>, critic_stepped |-> <<>>, actor_stepped |-> <<>>]

\* DDPG.train when replay_buffer.sample raises: only the call is counted
TrainRaised(p) ==
    [policy  |-> [p EXCEPT !.total_it = @ + 1],
     trained |-> [NoTrained EXCEPT !.kind = "raised", !.pre = p]]

\* DDPG.train on the sampled batch (model.py 224-277).  g holds the
\* gradients the two backward passes produce: of the critic loss with
\* respect to the critic (critic_loss), and of the actor loss with respect to
\* the actor (actor_loss) and to the critic it flows through (through_critic)
Train(p, batch, g) ==
    LET rows == DOMAIN batch
        next_action == [k \in rows |->
            ActorForward(p.actor_target, TargetActorInput(batch[k]))]
        target_Q == [k \in rows |->
            TargetValue(batch[k].reward, batch[k].not_done,
                        CriticForward(p.critic_target, batch[k].next_state,
                                      next_action[k]))]
        current_Q == [k \in rows |->
            CriticForward(p.critic, batch[k].state, batch[k].action)]
        critic_grad1 == Backward(ZeroGrad(p.critic_grad), g.critic_loss)
        cstep == OptimizerStep(p.critic_optimizer, p.critic, critic_grad1)
        actor_loss == [k \in rows |->
            CriticForward(cstep.params, batch[k].state,
                          ActorForward(p.actor, batch[k].state))]
        actor_grad1 == Backward(ZeroGrad(p.actor_grad), g.actor_loss)
        critic_grad2 == Backward(critic_grad1, g.through_critic)
        astep == OptimizerStep(p.actor_optimizer, p.actor, actor_grad1) IN
    [policy |->
        [p EXCEPT !.total_it = @ + 1,
                  !.critic = cstep.params,
                  !.critic_optimizer = cstep.optimizer,
                  !.critic_grad = critic_grad2,
                  !.actor = astep.params,
                  !.actor_optimizer = astep.optimizer,
                  !.actor_grad = actor_grad1,
                  !.critic_target = SoftUpdate(cstep.params, p.critic_target),
                  !.actor_target = SoftUpdate(astep.params, p.actor_target)],
     trained |->
        [kind |-> "train", pre |-> p, batch |-> batch, grads |-> g,
         next_action |-> next_action, target_Q |-> target_Q,
         current_Q |-> current_Q, actor_loss |-> actor_loss,
         critic_stepped |-> cstep.params, actor_stepped |-> astep.params]]

\* the four files of a checkpoint (save, 280-284)
NoFile == [exists |-> FALSE, data |-> <<>>]
File(data) == [exists |-> TRUE, data |-> data]
NoFiles ==
    [critic |-> NoFile, critic_optimizer |-> NoFile,
     actor |-> NoFile, actor_optimizer |-> NoFile]

\* DDPG.save(filename): the state_dict of the live networks and optimizers
Save(p) ==
    [critic           |-> File(p.critic),
     critic_optimizer |-> File(p.critic_optimizer),
     actor            |-> File(p.actor),
     actor_optimizer  |-> File(p.actor_optimizer)]

\* a bug that leaves the targets as they were
TargetAfterLoadKept(live, target) == target

\* copy.deepcopy of the live network (291, 294)
TargetAfterLoad(live, target) == live

\* DDPG.load(filename): the files are read in the order critic, critic
\* optimizer, actor, actor optimizer; a missing file raises and leaves what
\* was loaded before it
Load(p, f) ==
    LET p1 == [p EXCEPT !.critic = f.critic.data]
        p2 == [p1 EXCEPT !.critic_optimizer = f.critic_optimizer.data,
                         !.critic_target =
                             TargetAfterLoad(f.critic.data, p.critic_target)]
        p3 == [p2 EXCEPT !.actor = f.actor.data]
        p4 == [p3 EXCEPT !.actor_optimizer = f.actor_optimizer.data,
                         !.actor_target =
                             TargetAfterLoad(f.actor.data, p.actor_target)] IN
    IF ~f.critic.exists THEN [raised |-> "FileNotFoundError", policy |-> p]
    ELSE IF ~f.critic_optimizer.exists
    THEN [raised |-> "FileNotFoundError", policy |-> p1]
    ELSE IF ~f.actor.exists THEN [raised |-> "FileNotFoundError", policy |-> p2]
    ELSE IF ~f.actor_optimizer.exists
    THEN [raised |-> "FileNotFoundError", policy |-> p3]
    ELSE [raised |-> "none", policy |-> p4]

(***************************************************************************)
(* run() (environment.py 214-283): the training loop.  The constants       *)
(* NUMBER_OF_ITERATIONS (50000), START_TIMESTEPS (2500) and BATCH_SIZE     *)
(* (128) are scaled down, and the buffer's default capacity (10^6) with    *)
(* them: as in the code it exceeds the number of iterations.               *)
(***************************************************************************)
NUMBER_OF_ITERATIONS == 4
START_TIMESTEPS == 2
BATCH_SIZE == 1
MAX_LIMIT == 10

\* starting_amount_lower and starting_amount_upper as run leaves them
DefaultAmountLower == 10000
DefaultAmountUpper == 50000

\* ReplayBuffer(state_dim, action_dim): max_size defaults to more than the
\* loop ever adds
RunMaxSize == NUMBER_OF_ITERATIONS + 1

\* the arguments of run
RunStocks == <<"SPY">>
RunStartDate == D_01_01_2020
RunEndDates == {D_01_02_2020, D_01_11_2020}

\* State.to_numpy(): the state vector (cash, holdings, current prices)
ToNumpy(e) ==
    <<e.state.cash>> \o e.state.holdings
        \o GetStockPrices(e, e.state.date, e.state.time)

\* numbers with one decimal are modelled in tenths
Tenths(x) == 10 * x

\* a bug that leaves the noisy action unclipped
ClipNone(x) == x

\* ndarray.clip(-MAX_LIMIT, MAX_LIMIT), in tenths
Clip(x) ==
    IF x < Tenths(-MAX_LIMIT) THEN Tenths(-MAX_LIMIT)
    ELSE IF x > Tenths(MAX_LIMIT) THEN Tenths(MAX_LIMIT) ELSE x

\* ndarray.astype(int) of a number in tenths: truncation toward zero
AsInt(x) == IF x >= 0 THEN x \div 10 ELSE -((-x) \div 10)

\* values env.action_space.sample() draws, per stock
BoxSamples == {-MAX_LIMIT, 5}
\* values policy.select_action returns, per stock, in tenths
PolicyOutputs == {37}
\* values np.random.normal draws, per stock, in tenths
Noises == {-250, -62, 250}

\* the action of iteration t (240-251)
SelectActions(e, t) ==
    LET stocks == 1..Len(e.stock_names) IN
    IF t < START_TIMESTEPS
    THEN [stocks -> BoxSamples]
    ELSE {[i \in stocks |-> AsInt(Clip(p[i] + z[i]))] :
            p \in [stocks -> PolicyOutputs], z \in [stocks -> Noises]}

\* a bug that starts training one iteration late
ShouldTrainLate(t) == t > START_TIMESTEPS

\* if t >= START_TIMESTEPS (268)
ShouldTrain(t) == t >= START_TIMESTEPS

\* done_bool = float(done) if episode_timesteps < env.max_epochs else 0
DoneBool(done, episode_timesteps, max_epochs) ==
    IF episode_timesteps < max_epochs THEN (IF done THEN 1 ELSE 0) ELSE 0

\* the locals of run: the position in the loop body (pc), t, the episode
\* accumulators, the action chosen and what step returned, and the number of
\* replay_buffer.add and policy.train calls of the current iteration.  The
\* locals state and next_state are references to the object env.state.
NoLoop ==
    [pc |-> "start", t |-> 0, episode_timesteps |-> 0, episode_reward |-> 0,
     episode_num |-> 0, done |-> FALSE, action |-> <<>>, reward |-> 0,
     iter_adds |-> 0, iter_trains |-> 0]

InitRun ==
    /\ loop = NoLoop
    /\ policy = NoPolicy
    /\ trained = NoTrained
    /\ files = NoFiles

\* the checkpoint files run finds at save_location: none, a checkpoint
\* written by save, or one whose actor optimizer file is missing
RunCheckpoints ==
    {NoFiles,
     Save(NewDDPG(<<3, -7>>, <<20, 40>>)),
     [Save(NewDDPG(<<3, -7>>, <<20, 40>>)) EXCEPT !.actor_optimizer = NoFile]}

\* the gradients the backward passes of a train call in run produce
RunGradients ==
    {[critic_loss |-> <<1, -300>>, actor_loss |-> <<-1, 300>>,
      through_critic |-> <<7, 7>>]}

\* lines 222-227: the agent, loaded from the checkpoint if its actor file
\* exists
RunPolicy(f) ==
    LET made == NewDDPG(ActorWeights, CriticWeights) IN
    IF f.actor.exists THEN Load(made, f) ELSE [raised |-> "none", policy |-> made]

\* lines 219-233: the environment, the policy, the buffer, the first reset
RunStart ==
    /\ loop.pc = "start"
    /\ \E random \in BOOLEAN, ed \in RunEndDates, mkt \in Markets,
          ckpt \in RunCheckpoints :
         LET cfg == Configure(RunStocks, RunStartDate, ed, DefaultAmountLower,
                              DefaultAmountUpper, random, mkt.valid, mkt.priced)
             agent == RunPolicy(ckpt) IN
         /\ files' = ckpt
         /\ IF cfg.raised # "none"
            THEN /\ env' = cfg.env
                 /\ call' = CalledInit(RunStartDate, ed, EmptyEnv,
                                       Outcome(cfg.env, cfg.raised, 0, "notcalled", 0, FALSE))
                 /\ loop' = [loop EXCEPT !.pc = "raised"]
                 /\ policy' = NoPolicy
                 /\ UNCHANGED replay_buffer
            ELSE \E rnd1 \in Draws(cfg.env) :
                   LET made == Reset(cfg.env, rnd1) IN
                   IF made.raised # "none"
                   THEN /\ env' = made.env
                        /\ call' = CalledInit(RunStartDate, ed, cfg.env, made)
                        /\ loop' = [loop EXCEPT !.pc = "raised"]
                        /\ policy' = NoPolicy
                        /\ UNCHANGED replay_buffer
                   ELSE IF agent.raised # "none"
                   THEN /\ env' = made.env
                        /\ call' = CalledInit(RunStartDate, ed, cfg.env, made)
                        /\ loop' = [loop EXCEPT !.pc = "raised"]
                        /\ policy' = agent.policy
                        /\ UNCHANGED replay_buffer
                   ELSE \E rnd2 \in Draws(made.env) :
                          LET out == Reset(made.env, rnd2) IN
                          /\ env' = out.env
                          /\ call' = Called("reset", <<>>, made.env, out)
                          /\ loop' = [loop EXCEPT !.pc =
                                         IF out.raised # "none" THEN "raised" ELSE "select"]
                          /\ policy' = agent.policy
                          /\ replay_buffer' =
                               NewReplayBuffer(Len(ToNumpy(made.env)),
                                               Len(RunStocks), RunMaxSize)
    /\ adds' = <<>>
    /\ sampled' = NoSample
    /\ trained' = NoTrained
    /\ UNCHANGED ncalls

\* lines 237-253: count the step, choose the action, env.step(action)
RunStep ==
    /\ loop.pc = "select"
    /\ \E action \in SelectActions(env, loop.t) :
         LET out == Step(env, action) IN
         /\ env' = out.env
         /\ call' = Called("step", action, env, out)
         /\ loop' = [loop EXCEPT
                       !.episode_timesteps = @ + 1,
                       !.action = action,
                       !.reward = out.reward,
                       !.done = out.done,
                       !.pc = IF out.raised # "none" THEN "raised" ELSE "add"]
    /\ UNCHANGED <<replay_buffer, adds, sampled, policy, trained, files, ncalls>>

\* lines 259-265: store the transition; state and next_state both refer to
\* env.state, which step has advanced
RunAdd ==
    /\ loop.pc = "add"
    /\ LET done_bool == DoneBool(loop.done, loop.episode_timesteps, env.max_epochs) IN
       /\ replay_buffer' = BufferAdd(replay_buffer, ToNumpy(env), loop.action,
                                     ToNumpy(env), loop.reward, done_bool)
       /\ adds' = Append(adds, Stored(ToNumpy(env), loop.action, ToNumpy(env),
                                      loop.reward, done_bool))
    /\ loop' = [loop EXCEPT !.episode_reward = @ + loop.reward,
                            !.iter_adds = @ + 1,
                            !.pc = "train"]
    /\ UNCHANGED <<sampled, policy, trained, files, env, call, ncalls>>

\* lines 268-269: policy.train(replay_buffer, BATCH_SIZE) (model.py 224-277)
RunTrain ==
    /\ loop.pc = "train"
    /\ IF ShouldTrain(loop.t)
       THEN /\ sampled' \in SampleOutcomes(replay_buffer, BATCH_SIZE)
            /\ \E g \in RunGradients :
                 LET out == IF sampled'.kind = "batch"
                            THEN Train(policy, sampled'.batch, g)
                            ELSE TrainRaised(policy) IN
                 /\ policy' = out.policy
                 /\ trained' = out.trained
            /\ loop' = [loop EXCEPT !.iter_trains = @ + 1,
                                    !.pc = IF sampled'.kind = "batch"
                                           THEN "end" ELSE "raised"]
       ELSE /\ loop' = [loop EXCEPT !.pc = "end"]
            /\ UNCHANGED <<sampled, policy, trained>>
    /\ UNCHANGED <<replay_buffer, adds, files, env, call, ncalls>>

\* the next iteration, or the return of run (236, 283)
NextIteration(l) ==
    [l EXCEPT !.t = @ + 1, !.iter_adds = 0, !.iter_trains = 0,
              !.pc = IF l.t + 1 >= NUMBER_OF_ITERATIONS THEN "returned" ELSE "select"]

\* a bug that keeps counting the steps of the finished episode
EpisodeResetKeepSteps(l) ==
    [l EXCEPT !.done = FALSE, !.episode_reward = 0, !.episode_num = @ + 1]

\* lines 277-280: done = False and the episode accumulators start again
EpisodeReset(l) ==
    [l EXCEPT !.done = FALSE, !.episode_reward = 0, !.episode_timesteps = 0,
              !.episode_num = @ + 1]

\* lines 271-282: on done reset the environment and the episode accumulators
RunEnd ==
    /\ loop.pc = "end"
    /\ IF loop.done
       THEN \E rnd \in Draws(env) :
              LET out == Reset(env, rnd) IN
              /\ env' = out.env
              /\ call' = Called("reset", <<>>, env, out)
              /\ loop' = IF out.raised # "none"
                         THEN [loop EXCEPT !.pc = "raised"]
                         ELSE NextIteration(EpisodeReset(loop))
       ELSE /\ loop' = NextIteration(loop)
            /\ UNCHANGED <<env, call>>
    /\ sampled' = NoSample
    /\ trained' = NoTrained
    /\ UNCHANGED <<replay_buffer, adds, policy, files, ncalls>>

Next == RunStart \/ RunStep \/ RunAdd \/ RunTrain \/ RunEnd

(***************************************************************************)
(* SpecBuf: a buffer of capacity BufCap.  The driver tags the n-th         *)
(* transition with state <<n>> and next_state <<n + 1>> (a sentinel per    *)
(* insertion, so that an overwrite is observable) and draws the action,    *)
(* the reward and the done flag.                                           *)
(***************************************************************************)
BufActions == {<<-10>>, <<5>>}
BufRewards == {20}
BufDones == {0, 1}

InitBuf ==
    /\ replay_buffer = NewReplayBuffer(1, 1, BufCap)
    /\ adds = <<>>
    /\ sampled = NoSample
    /\ InitEnv
    /\ InitRun

BufAdd ==
    /\ Len(adds) < MaxAdds
    /\ \E a \in BufActions, r \in BufRewards, done \in BufDones :
         LET n == Len(adds) + 1 IN
         /\ replay_buffer' = BufferAdd(replay_buffer, <<n>>, a, <<n + 1>>, r, done)
         /\ adds' = Append(adds, Stored(<<n>>, a, <<n + 1>>, r, done))
    /\ sampled' = NoSample
    /\ UNCHANGED <<envVars, runVars>>

BufSample ==
    /\ sampled' \in SampleOutcomes(replay_buffer, SampleSize)
    /\ UNCHANGED <<replay_buffer, adds>>
    /\ UNCHANGED <<envVars, runVars>>

NextBuf == BufAdd \/ BufSample

SpecBuf == InitBuf /\ [][NextBuf]_vars

SpecEnv == InitBuf /\ [][NextEnv]_vars

(***************************************************************************)
(* SpecAgent: a DDPG agent is constructed, and its caller fills a replay   *)
(* buffer, trains the agent on it, and saves and loads checkpoints.        *)
(***************************************************************************)
\* number of add calls and of train calls the caller makes
AgentMaxAdds == 2
MaxTrains == 2
\* batch_size the caller passes to train
AgentBatch == 1

\* the gradients the backward passes of a train call produce
AgentGradients ==
    {[critic_loss |-> <<1, -300>>, actor_loss |-> <<0, 300>>,
      through_critic |-> <<7, 7>>],
     [critic_loss |-> <<0, 0>>, actor_loss |-> <<-1, 0>>,
      through_critic |-> <<7, 7>>]}

\* what load did, in the shape of a train record
Loaded(pre, raised) ==
    [NoTrained EXCEPT !.kind = IF raised = "none" THEN "load" ELSE "load_raised",
                      !.pre = pre]

AgentConstructed == policy # NoPolicy

\* DDPG(state_dim, action_dim, max_action)
AgentConstruct ==
    /\ ~AgentConstructed
    /\ policy' = NewDDPG(ActorWeights, CriticWeights)
    /\ UNCHANGED <<bufVars, envVars, loop, trained, files>>

\* the action of the transitions the caller adds
AgentActions == {<<5>>}

\* replay_buffer.add of the next transition
AgentAdd ==
    /\ Len(adds) < AgentMaxAdds
    /\ \E a \in AgentActions, r \in BufRewards, done \in BufDones :
         LET n == Len(adds) + 1 IN
         /\ replay_buffer' = BufferAdd(replay_buffer, <<n>>, a, <<n + 1>>, r, done)
         /\ adds' = Append(adds, Stored(<<n>>, a, <<n + 1>>, r, done))
    /\ UNCHANGED <<sampled, envVars, runVars>>

\* policy.train(replay_buffer, batch_size)
AgentTrain ==
    /\ AgentConstructed
    /\ policy.total_it < MaxTrains
    /\ sampled' \in SampleOutcomes(replay_buffer, AgentBatch)
    /\ \E g \in AgentGradients :
         LET out == IF sampled'.kind = "batch"
                    THEN Train(policy, sampled'.batch, g)
                    ELSE TrainRaised(policy) IN
         /\ policy' = out.policy
         /\ trained' = out.trained
    /\ UNCHANGED <<replay_buffer, adds, envVars, loop, files>>

\* policy.save(filename)
AgentSave ==
    /\ AgentConstructed
    /\ files' = Save(policy)
    /\ UNCHANGED <<bufVars, envVars, loop, policy, trained>>

\* policy.load(filename)
AgentLoad ==
    /\ AgentConstructed
    /\ LET out == Load(policy, files) IN
       /\ policy' = out.policy
       /\ trained' = Loaded(policy, out.raised)
    /\ UNCHANGED <<bufVars, envVars, loop, files>>

NextAgent == AgentConstruct \/ AgentAdd \/ AgentTrain \/ AgentSave \/ AgentLoad

SpecAgent == InitBuf /\ [][NextAgent]_vars

Spec == InitBuf /\ [][Next]_vars

(***************************************************************************)
(* Claims about the training loop run(), checked under Spec.               *)
(***************************************************************************)
\* C10: policy.train is never called in an iteration t < START_TIMESTEPS and
\* exactly once in every iteration t >= START_TIMESTEPS, after that
\* iteration's replay_buffer.add; so at least START_TIMESTEPS transitions are
\* in the buffer before the first training call and sample is never called
\* on an empty buffer.
C10_TrainAfterStart ==
    /\ loop.iter_trains > 0 =>
         /\ loop.t >= START_TIMESTEPS
         /\ loop.iter_trains = 1
         /\ loop.iter_adds = 1
    /\ loop.pc = "end" =>
         loop.iter_trains = (IF loop.t >= START_TIMESTEPS THEN 1 ELSE 0)
    /\ policy.total_it =
         (IF loop.t >= START_TIMESTEPS
          THEN loop.t - START_TIMESTEPS + loop.iter_trains ELSE 0)
    /\ policy.total_it > 0 =>
         /\ Len(adds) >= START_TIMESTEPS
         /\ Len(adds) >= START_TIMESTEPS + policy.total_it
    /\ sampled.kind # "ValueError"
    /\ sampled.kind = "batch" => replay_buffer.size > 0

\* the first training call: iteration START_TIMESTEPS, after its add
C10_Witness ==
    /\ loop.pc = "end"
    /\ loop.t = START_TIMESTEPS
    /\ loop.iter_adds = 1 /\ loop.iter_trains = 1
    /\ policy.total_it = 1
    /\ sampled.kind = "batch"
    /\ Len(adds) = START_TIMESTEPS + 1

\* C11: the done flag stored with a transition is zeroed whenever the
\* episode's step count is below max_epochs, so such a transition is stored
\* with not_done = 1; every stored not_done is 0 or 1.
C11_DoneZeroedBelowMax ==
    /\ (loop.pc = "train" /\ loop.episode_timesteps < env.max_epochs) =>
         adds[Len(adds)].not_done = <<1>>
    /\ \A i \in 1..Len(adds) : adds[i].not_done \in {<<0>>, <<1>>}

\* C12: every action passed to env.step is a vector of integers each in
\* [-MAX_LIMIT, MAX_LIMIT], in the uniform-random phase and in the
\* noisy-policy phase, whatever the policy output and the noise sample.
C12_ActionInBox ==
    call.op = "step" =>
      /\ Len(call.action) = Len(env.stock_names)
      /\ \A i \in 1..Len(call.action) :
           call.action[i] \in (-MAX_LIMIT)..MAX_LIMIT

\* a noisy-policy action that the clip brought back to the upper bound
C12_Witness ==
    /\ call.op = "step"
    /\ loop.pc = "add"
    /\ loop.t >= START_TIMESTEPS
    /\ call.action = <<MAX_LIMIT>>

(***************************************************************************)
(* Claims about DDPG, checked under SpecAgent.                             *)
(***************************************************************************)
\* C14 (as claimed): in train the target action is the target actor applied
\* to the next_state of the sampled batch, and the target value is reward +
\* not_done * discount * critic_target(next_state, target_action): both
\* arguments of critic_target derive from next_state, and the bootstrapped
\* term is dropped when not_done = 0.
C14_TargetFromNextState ==
    trained.kind = "train" =>
      \A k \in DOMAIN trained.batch :
        LET row == trained.batch[k]
            target_action ==
                ActorForward(trained.pre.actor_target, row.next_state) IN
        /\ trained.next_action[k] = target_action
        /\ trained.target_Q[k].reward = row.reward
        /\ trained.target_Q[k].q =
             CriticForward(trained.pre.critic_target, row.next_state,
                           target_action)
        /\ trained.target_Q[k].factor =
             (IF row.not_done = <<0>> THEN 0 ELSE DiscountPct)

\* what train computes: the target actor is applied to the batch's state
C14_TargetFromState ==
    trained.kind = "train" =>
      \A k \in DOMAIN trained.batch :
        LET row == trained.batch[k] IN
        /\ trained.next_action[k] =
             ActorForward(trained.pre.actor_target, row.state)
        /\ trained.target_Q[k].q =
             CriticForward(trained.pre.critic_target, row.next_state,
                           trained.next_action[k])
        /\ trained.target_Q[k].factor =
             (IF row.not_done = <<0>> THEN 0 ELSE DiscountPct)

Abs(x) == IF x < 0 THEN -x ELSE x

\* new lies strictly between a and b
StrictlyBetween(new, a, b) == (a < new /\ new < b) \/ (b < new /\ new < a)

\* the target parameters before a train call, after it, and the live
\* parameters after it, paired parameter by parameter over both networks
SoftUpdated ==
    {[old |-> trained.pre.actor_target[i], new |-> policy.actor_target[i],
      live |-> policy.actor[i]] : i \in DOMAIN policy.actor}
    \cup
    {[old |-> trained.pre.critic_target[i], new |-> policy.critic_target[i],
      live |-> policy.critic[i]] : i \in DOMAIN policy.critic}

C16_LoadRestores ==
    trained.kind = "load" =>
      /\ policy.actor = files.actor.data
      /\ policy.critic = files.critic.data
      /\ policy.actor_optimizer = files.actor_optimizer.data
      /\ policy.critic_optimizer = files.critic_optimizer.data
      /\ policy.actor_target = policy.actor
      /\ policy.critic_target = policy.critic

\* a load that replaced live networks, optimizer states and targets that
\* had all moved on since the checkpoint was saved
C16_Witness ==
    /\ trained.kind = "load"
    /\ trained.pre.actor # policy.actor
    /\ trained.pre.critic # policy.critic
    /\ trained.pre.actor_optimizer # policy.actor_optimizer
    /\ trained.pre.critic_optimizer # policy.critic_optimizer
    /\ trained.pre.actor_target # trained.pre.actor
    /\ trained.pre.actor_target # policy.actor_target
    /\ trained.pre.critic_target # policy.critic_target

\* C17 (as claimed): each transition the loop inserts has as its state the
\* state vector observed before the step and as its next_state the state
\* vector after the step.
C17_StoredStateIsPreStep ==
    (loop.pc = "train" /\ call.op = "step") =>
      /\ adds[Len(adds)].state = ToNumpy(call.pre)
      /\ adds[Len(adds)].next_state = ToNumpy(env)

\* what the loop stores: the vector after the step, in both components
C17_StoredStateIsPostStep ==
    (loop.pc = "train" /\ call.op = "step") =>
      /\ adds[Len(adds)].state = ToNumpy(env)
      /\ adds[Len(adds)].next_state = ToNumpy(env)

\* params moved against the optimizer's moment with the gradient g folded in
Stepped(params, opt, g) == [i \in DOMAIN params |-> params[i] - (opt.m[i] + g[i])]

\* C19: within one train call the critic optimizer step changes only the live
\* critic and the actor optimizer step only the live actor; the actor loss's
\* backward pass through the critic updates no critic parameter, in that call
\* or through leftover gradients in a later one; the targets are changed only
\* by the soft update at the end of train or by the copy at load.
C19_OptimizerIsolation ==
    /\ trained.kind = "train" =>
         LET pre == trained.pre
             g == trained.grads IN
         \* the critic step: the critic-loss gradient only, the actor untouched
         /\ trained.critic_stepped =
              Stepped(pre.critic, pre.critic_optimizer, g.critic_loss)
         /\ \A k \in DOMAIN trained.batch :
              /\ trained.actor_loss[k].params = trained.critic_stepped
              /\ trained.actor_loss[k].action.params = pre.actor
         \* the actor step: the actor only
         /\ trained.actor_stepped =
              Stepped(pre.actor, pre.actor_optimizer, g.actor_loss)
         /\ policy.critic = trained.critic_stepped
         /\ policy.actor = trained.actor_stepped
         \* the targets: the soft update of the values held before the call
         /\ \A i \in DOMAIN policy.critic_target :
              policy.critic_target[i] =
                 SoftParam(policy.critic[i], pre.critic_target[i])
         /\ \A i \in DOMAIN policy.actor_target :
              policy.actor_target[i] =
                 SoftParam(policy.actor[i], pre.actor_target[i])
    /\ trained.kind \in {"raised", "load_raised"} =>
         /\ policy.actor_target = trained.pre.actor_target
         /\ policy.critic_target = trained.pre.critic_target
    /\ trained.kind = "load" =>
         /\ policy.actor_target = policy.actor
         /\ policy.critic_target = policy.critic

\* a second train call, entered with the critic gradients the first call's
\* actor loss left behind, in which both optimizers moved their parameters
C19_Witness ==
    /\ trained.kind = "train"
    /\ trained.pre.total_it >= 1
    /\ \E i \in DOMAIN trained.pre.critic_grad : trained.pre.critic_grad[i] # 0
    /\ trained.grads.through_critic # ZeroGrad(trained.grads.through_critic)
    /\ policy.critic # trained.pre.critic
    /\ policy.actor # trained.pre.actor

\* one step of the loop, as C20 describes it
C20_LoopStep ==
    \* the end of an iteration whose step returned done: the environment is
    \* reset and the accumulators are zeroed; otherwise nothing is reset
    /\ (loop.pc = "end" /\ loop'.pc \in {"select", "returned"}) =>
         IF loop.done
         THEN /\ call'.op = "reset" /\ call'.raised = "none"
              /\ call'.pre = env
              /\ env'.starting_amount = PortfolioValue(env', env'.state)
              /\ loop'.episode_reward = 0
              /\ loop'.episode_timesteps = 0
              /\ loop'.episode_num = loop.episode_num + 1
              /\ ~loop'.done
         ELSE /\ env' = env /\ call' = call
              /\ loop'.episode_reward = loop.episode_reward
              /\ loop'.episode_timesteps = loop.episode_timesteps
              /\ loop'.episode_num = loop.episode_num
    \* the next action is chosen for, and the step taken in, the state the
    \* environment is in after that: the one the reset returned
    /\ (loop.pc = "select" /\ loop'.pc # "select") =>
         /\ call'.op = "step" /\ call'.pre = env
         /\ loop'.action \in SelectActions(env, loop.t)
         /\ loop'.episode_timesteps = loop.episode_timesteps + 1
    /\ (loop.pc = "add" /\ loop'.pc = "train") =>
         loop'.episode_reward = loop.episode_reward + loop.reward

\* C20: whenever env.step returns done == True the environment is reset and
\* the episode reward and step count are zeroed before the next action is
\* selected, and the next action is chosen from the state that reset
\* returned; when done is False no reset happens and the episode counters
\* keep accumulating.
C20_ResetOnDone == [][C20_LoopStep]_vars

\* the loop is about to select an action right after the reset that followed
\* a done step
C20_Witness ==
    /\ loop.pc = "select"
    /\ loop.t > 0
    /\ call.op = "reset" /\ call.raised = "none"
    /\ IsDone(call.pre)
    /\ loop.episode_num >= 1
    /\ loop.episode_timesteps = 0 /\ loop.episode_reward = 0

(***************************************************************************)
(* Claims about StockEnv, checked under SpecEnv.                           *)
(***************************************************************************)
\* the last call returned normally
Completed(op) == call.op = op /\ call.raised = "none"

\* the environment's current date and time (get_date_and_time)
CurrentDate == DateOfEpoch(env, env.epochs)
CurrentTime == TimeOfEpoch(env.epochs)

\* C4: every increment_date call that returns strictly increases epoch and
\* lands on a date of the trading calendar; so after every completed
\* construction, reset and step the current date is a valid trading date.
C4_EpochMonotoneValid ==
    /\ call.inc = "returned" =>
         /\ env.epochs > call.from_epoch
         /\ CurrentDate \in env.valid_dates
    /\ (Completed("init") \/ Completed("reset") \/ Completed("step")) =>
         /\ call.inc = "returned"
         /\ CurrentDate \in env.valid_dates
         /\ env.state.date \in env.valid_dates

\* a step that skipped closed days
C4_Witness ==
    /\ Completed("step")
    /\ env.epochs > call.from_epoch + 2
    /\ CurrentDate \in env.valid_dates

\* the dates of the candidate epochs from + 1 .. from + n
CandidateDates(e, from, n) == {DateOfEpoch(e, from + k) : k \in 1..n}

\* C5 (as claimed): increment_date raises "out of range" if and only if none
\* of the candidate epochs epoch + 1 .. epoch + 20 has a date in the trading
\* calendar.
C5_RaisesIffNoneOfTwenty ==
    call.inc # "notcalled" =>
        (call.inc = "raised" <=>
            CandidateDates(env, call.from_epoch, SearchLimit) \cap env.valid_dates = {})

\* C6: a completed step returns reward = new cash + sum(new holdings * prices
\* at the post-step date and time) - V0, V0 being the valuation recorded by
\* the most recent completed reset: a reset records the valuation of the
\* state it installs, and neither a step nor a failed reset changes it.
C6_RewardIsCumulative ==
    /\ Completed("step") =>
         call.reward =
            env.state.cash
            + Dot(env.state.holdings, GetStockPrices(env, CurrentDate, CurrentTime))
            - env.starting_amount
    /\ (Completed("init") \/ Completed("reset")) =>
         env.starting_amount =
            env.state.cash
            + Dot(env.state.holdings, GetStockPrices(env, CurrentDate, CurrentTime))
    /\ (call.op = "step" \/ (call.op = "reset" /\ call.raised # "none")) =>
         env.starting_amount = call.pre.starting_amount

\* a step whose reward differs from the change of value over that step
C6_Witness ==
    /\ Completed("step")
    /\ call.pre.epochs > 0
    /\ PortfolioValue(call.pre, call.pre.state) # env.starting_amount
    /\ call.reward # PortfolioValue(env, env.state) - PortfolioValue(call.pre, call.pre.state)

C8_Scenario(old_prices) ==
    /\ call.pre.stock_names = <<"SPY">>
    /\ call.pre.state.cash = 10000
    /\ call.pre.state.holdings = <<0>>
    /\ call.pre.epochs = 0
    /\ old_prices = <<100>>
    /\ call.action = <<5>>

\* what a completed step did: it charged the action at the pre-step prices,
\* with no floor on cash, and in the scenario left holdings 5 and cash 9500
\* and returned the reward r at the Close price 102
C8_StepCharges(r) ==
    Completed("step") =>
        LET old_prices == GetStockPrices(call.pre,
                              DateOfEpoch(call.pre, call.pre.epochs),
                              TimeOfEpoch(call.pre.epochs)) IN
        /\ env.state.cash = call.pre.state.cash - Dot(call.action, old_prices)
        /\ C8_Scenario(old_prices) =>
               /\ env.state.holdings = <<5>>
               /\ env.state.cash = 9500
               /\ CurrentTime = "Close"
               /\ GetStockPrices(env, CurrentDate, CurrentTime) = <<102>>
               /\ call.reward = r

\* C8 (as claimed): a step charges the action at the prices of the pre-step
\* date and time, with no floor on cash, and values the result at the
\* post-step prices: in the scenario holdings are 5, cash is 9500 and the
\* reward at the Close price 102 is 20.
C8_AsClaimed == C8_StepCharges(20)

\* C8 (amended): as claimed, but the scenario's reward is
\* 9500 + 5 * 102 - 10000 = 10.
C8_ChargedAtOldPrices == C8_StepCharges(10)

\* the scenario: +5 shares at 100 out of 10000, valued at 102
C8_Witness ==
    /\ Completed("step")
    /\ call.pre.state.cash = 10000 /\ call.pre.state.holdings = <<0>>
    /\ call.pre.epochs = 0
    /\ call.action = <<5>>
    /\ env.state.cash = 9500 /\ env.state.holdings = <<5>>
    /\ call.reward = 10

\* the tokens of a date string are three numbers
ThreeNumbers(s) == Len(Split(s)) = 3 /\ \A i \in 1..3 : IsDigit(Split(s)[i])

\* a date string the constructor must accept
WellFormed(s) ==
    /\ ThreeNumbers(s)
    /\ \A i \in 1..3 : ParseInt(Split(s)[i]) > 0
    /\ DateObjError(Split(s)) = "ok"

\* the errors initialize_date raises
ValidationErrors ==
    {"DateNotValid", "IntValueError", "IndexError", "DateCtorValueError"}

\* C9 (as claimed): constructing with a malformed date string, a non-positive
\* component or an end date before the start date fails with an error raised
\* by date validation, before epoch or portfolio state are initialised; a
\* well-formed range with end on or after start raises no such error.
C9_BadDatesFailInValidation ==
    call.op = "init" =>
        LET good == /\ WellFormed(call.start_arg) /\ WellFormed(call.end_arg)
                    /\ DateOrd(call.end_arg) >= DateOrd(call.start_arg) IN
        /\ ~good =>
             /\ call.raised \in ValidationErrors
             /\ "epochs" \notin env.attrs
             /\ "state" \notin env.attrs
        /\ good => call.raised \notin ValidationErrors

\* C13: after every completed reset (deterministic or random-start, at
\* construction or between episodes) starting_amount equals cash +
\* sum(holdings * prices) of the freshly reset state at the post-reset date
\* and time, whatever the previous episode's value was; in deterministic mode
\* the holdings are zero and it equals starting_amount_upper.
C13_ResetValuation ==
    (Completed("init") \/ Completed("reset")) =>
      /\ env.state.date = CurrentDate
      /\ env.state.time = CurrentTime
      /\ env.starting_amount =
           env.state.cash
           + Dot(env.state.holdings,
                 GetStockPrices(env, env.state.date, env.state.time))
      /\ ~env.random_start =>
           /\ \A i \in 1..Len(env.state.holdings) : env.state.holdings[i] = 0
           /\ env.starting_amount = env.starting_amount_upper

\* a random-start reset between episodes, after steps that changed the
\* portfolio, which records a value other than the previous episode's
C13_Witness ==
    /\ Completed("reset")
    /\ env.random_start
    /\ call.pre.state.holdings # env.state.holdings
    /\ call.pre.starting_amount # env.starting_amount
    /\ env.starting_amount # env.state.cash

\* C18: an increment_date call that returns advances epoch to the smallest
\* epoch greater than the one it was called at whose date is in the trading
\* calendar: by exactly one half-day when the date of epoch + 1 is valid, and
\* otherwise to the first half-day (Open) of the next valid date, passing
\* over no half-day whose date is valid.
C18_SmallestValidEpoch ==
    call.inc = "returned" =>
      LET from == call.from_epoch IN
      /\ env.epochs > from
      /\ DateOfEpoch(env, env.epochs) \in env.valid_dates
      /\ \A ep \in (from + 1)..(env.epochs - 1) :
           DateOfEpoch(env, ep) \notin env.valid_dates
      /\ DateOfEpoch(env, from + 1) \in env.valid_dates =>
           env.epochs = from + 1
      /\ DateOfEpoch(env, from + 1) \notin env.valid_dates =>
           /\ TimeOfEpoch(env.epochs) = "Open"
           /\ DateOfEpoch(env, env.epochs) > DateOfEpoch(env, from + 1)

\* a step from the Close of a trading day over two closed days to the Open
\* of the next trading day
C18_Witness ==
    /\ Completed("step")
    /\ TimeOfEpoch(call.from_epoch) = "Close"
    /\ DateOfEpoch(env, call.from_epoch) \in env.valid_dates
    /\ env.epochs = call.from_epoch + 5
    /\ CurrentTime = "Open"

\* the last call is a step that returned done for the first time since the
\* last reset
FirstDone ==
    Completed("step") /\ call.done /\ (call.steps = 1 \/ ~IsDone(call.pre))

C22_StateDateFollowsEpoch ==
    (Completed("init") \/ Completed("reset") \/ Completed("step")) =>
      /\ env.state.date = DateOrd(env.start_date) + (env.epochs \div 2)
      /\ env.state.time = (IF env.epochs % 2 = 0 THEN "Open" ELSE "Close")
      /\ PortfolioValue(env, env.state) =
           env.state.cash
           + Dot(env.state.holdings,
                 GetStockPrices(env, CurrentDate, CurrentTime))

\* a step that moved the state from the Close of one day to the Open of a
\* later one
C22_Witness ==
    /\ Completed("step")
    /\ call.pre.state.time = "Close"
    /\ env.state.time = "Open"
    /\ env.state.date > call.pre.state.date
    /\ env.state.date = CurrentDate

\* C23: a step that raises (out of range in the calendar search, or data not
\* found at either price lookup) leaves the environment unchanged: the epoch,
\* the cash, the holdings and the state's date and time keep their pre-step
\* values (so a step that fails cannot put the epoch and the portfolio state
\* out of sync).
C23_FailedStepUnchanged ==
    (call.op = "step" /\ call.raised # "none") =>
      /\ env.epochs = call.pre.epochs
      /\ env.state.cash = call.pre.state.cash
      /\ env.state.holdings = call.pre.state.holdings
      /\ env.state.date = call.pre.state.date
      /\ env.state.time = call.pre.state.time

(***************************************************************************)
(* Claims about the ReplayBuffer, checked under SpecBuf.                   *)
(***************************************************************************)
\* the five components slot i holds
Row(rb, i) ==
    [state |-> rb.state[i], action |-> rb.action[i],
     next_state |-> rb.next_state[i],
     reward |-> rb.reward[i], not_done |-> rb.not_done[i]]

\* the number of the latest of n add calls that wrote slot i of a buffer of
\* capacity cap (the j-th call writes slot (j - 1) mod cap)
LatestWriter(n, cap, i) == n - ((n - 1 - i) % cap)

\* C1: after n add calls on a buffer of capacity N, size <= N and
\* 0 <= ptr < N; precisely ptr = n mod N and size = min(n, N).
C1_PtrAndSize ==
    LET n == Len(adds)
        cap == replay_buffer.max_size IN
    /\ replay_buffer.size <= cap
    /\ 0 <= replay_buffer.ptr /\ replay_buffer.ptr < cap
    /\ replay_buffer.ptr = n % cap
    /\ replay_buffer.size = Min(n, cap)

\* the write pointer has wrapped and the size is capped
C1_Witness ==
    /\ Len(adds) = replay_buffer.max_size + 1
    /\ replay_buffer.ptr = 1
    /\ replay_buffer.size = replay_buffer.max_size

\* C2: after capacity + k adds (k > 0) size = capacity, every slot holds the
\* latest transition written to it, so the slots hold exactly the most recent
\* `capacity` transitions and none of the oldest k; the first transition
\* stays in slot 0 through the first `capacity` adds and is overwritten by
\* the add that follows them.
C2_Wraparound ==
    LET n == Len(adds)
        cap == replay_buffer.max_size
        slots == 0..(cap - 1) IN
    /\ n > cap =>
         /\ replay_buffer.size = cap
         /\ \A i \in slots :
              /\ LatestWriter(n, cap, i) \in (n - cap + 1)..n
              /\ Row(replay_buffer, i) = adds[LatestWriter(n, cap, i)]
         /\ \A j \in 1..(n - cap) : \A i \in slots :
              Row(replay_buffer, i) # adds[j]
    /\ (1 <= n /\ n <= cap) => Row(replay_buffer, 0) = adds[1]
    /\ n = cap + 1 =>
         /\ Row(replay_buffer, 0) = adds[cap + 1]
         /\ Row(replay_buffer, 0) # adds[1]

\* the ring has gone round more than once
C2_Witness ==
    /\ Len(adds) = 2 * replay_buffer.max_size + 1
    /\ Row(replay_buffer, 0) = adds[Len(adds)]
    /\ replay_buffer.size = replay_buffer.max_size

\* the transitions added and not yet overwritten
Live ==
    {adds[j] : j \in (Len(adds) - replay_buffer.size + 1)..Len(adds)}

\* C3: sample draws every index from [0, size), so each returned row is the
\* five components of one transition that was added and not overwritten,
\* never a never-written slot; with size = 0 sample fails and returns no
\* batch.
C3_SampleRows ==
    /\ sampled.kind = "batch" =>
         /\ replay_buffer.size > 0
         /\ \A k \in DOMAIN sampled.ind :
              /\ sampled.ind[k] \in 0..(replay_buffer.size - 1)
              /\ sampled.batch[k] \in Live
    /\ sampled.kind = "ValueError" <=>
         (sampled.kind # "none" /\ replay_buffer.size = 0)

\* a batch with a repeated index, drawn from a buffer that has wrapped
C3_Witness ==
    /\ sampled.kind = "batch"
    /\ Len(adds) > replay_buffer.max_size
    /\ sampled.ind[1] = sampled.ind[2]
    /\ sampled.batch[1] = adds[Len(adds)]

====
